---- MODULE Spec2Model ----
(***************************************************************************)
(* Model of the pla load generator: the boomer engine (Run, Stop, Wait,    *)
(* runWorkers, runWorker, notifyResult, triggerLoop), the command line's   *)
(* main goroutine, its interrupt handler and its result processor, and the *)
(* counters of the BasicInterface that the final report reads.             *)
(***************************************************************************)
EXTENDS Integers, Sequences, FiniteSets, TLC

\* ------------------------------------------------------------------ bounds
MaxN == 2          \* largest amount of requests (Boomer.N) explored
MaxC == 2          \* largest concurrency level (Boomer.C) explored
MaxJobs == 2       \* cap on the jobs a duration-mode run may dispatch
MaxStops == 2      \* Stop calls the caller of Run may make in a row
MaxCalls == 3      \* With* calls made on one Boomer
MaxQ == 2          \* largest rate limit explored
MaxRateJobs == 4   \* amount of requests of the rate-limited run
MaxBins == 2       \* bins of the histogram of the report, and with it the samples fed

\* ticks in the period of the rate limit (time.Second)
Period == 2

\* the clock is followed for three periods
Horizon == 3 * Period

Workers == 1..MaxC
Stoppers == {"timer", "sig", "caller"}
Outcomes == {"ok", "err"}

VARIABLES
    N,              \* Boomer.N
    C,              \* Boomer.C
    Duration,       \* Boomer.Duration (0, or 1 for any positive length)
    limited,        \* Boomer.bucket # nil
    Q,              \* the n WithRateLimit was called with (0: never called)
    Timeout,        \* Boomer.Timeout
    template,       \* content of the request Boomer.Request points to
    target,         \* the answers the server under test may give, and the
                    \* errors a request to it may end with
    fed,            \* the Outcomes handed to ProcessResult one by one, where
                    \* the statistics are looked at on their own
    running,        \* Boomer.running
    stopClosed,     \* Boomer.stop has been closed
    closes,         \* number of close(b.stop) executed
    jobsClosed,     \* Boomer.jobs has been closed
    wg,             \* counter of Boomer.wg
    results,        \* content of the buffered channel Boomer.results
    resultsClosed,  \* Boomer.results has been closed
    dpc,            \* position of the triggerLoop goroutine
    i,              \* triggerLoop's i: jobs handed to workers
    dexit,          \* which return of triggerLoop was taken
    wpc,            \* position of each runWorker goroutine
    wres,           \* err of the request a worker has just executed
    executed,       \* number of client.Do / client.DoTimeout calls made
    pubOk, pubErr,  \* Results published by notifyResult, by kind
    wjob,           \* runWorker's r: the pointer received from Boomer.jobs
    wdo,            \* object and content a worker gave client.Do for that job
    cpc,            \* position of the processResults goroutine
    cres,           \* Result processResults has received
    procOk,         \* histo.Count(): successes seen by ProcessResult
    procErr,        \* sum of errorDist: errors seen by ProcessResult
    ui,             \* the BasicInterface: the statistics of the report
    mpc,            \* position of the goroutine that calls Run and Wait
    stopsMade,      \* Stop calls the caller of Run has made
    spc,            \* position of each context inside Boomer.Stop
    report,         \* what each call of ui.End found
    panicked,       \* the process died of a runtime panic
    exited,         \* os.Exit was called
    now,            \* time.Now(), in ticks
    bucket,         \* state of Boomer.bucket
    sent,           \* the instants at which jobs were handed to workers
    tokens,         \* bucket.Add calls that returned no error
    runAt,          \* the instant Run was called at (-1: not yet)
    calls,          \* the With* calls made on the Boomer, in order
    rpc,            \* position of the triggerLoop goroutine of a second Run
    ri,             \* that triggerLoop's i
    jobCloses,      \* number of close(b.jobs) executed
    lateSends,      \* sends on b.jobs made after it was closed
    queued,         \* jobs held by the buffered job channel of the older engine
    rwg             \* counter of the report's WaitGroup in the older engine

cfg == <<N, C, Duration, limited, Q, Timeout, template, target, fed>>
eng == <<running, stopClosed, closes, jobsClosed, wg, results, resultsClosed>>
disp == <<dpc, i, dexit>>
work == <<wpc, wres, executed, pubOk, pubErr, wjob, wdo>>
cons == <<cpc, cres, procOk, procErr, ui>>
env == <<mpc, stopsMade, spc, report, panicked, exited>>
lim == <<now, bucket, sent, tokens, runAt>>
rerun == <<rpc, ri, jobCloses, lateSends>>
legacy == <<queued, rwg>>
vars == <<cfg, eng, disp, work, cons, env, lim, calls, rerun, legacy>>

NoReport == [made |-> FALSE, cancelled |-> FALSE, ok |-> 0, err |-> 0, disp |-> 0,
             pub |-> 0, pending |-> 0, average |-> [num |-> 0, den |-> 0],
             sections |-> {}, crashed |-> FALSE]

\* ------------------------------------------------------- fasthttp.Request
\* a request whose Reset has just been called
Blank == [method |-> "", uri |-> "", auth |-> "", body |-> ""]

\* the request the tests build before NewBoomer
TestRequest ==
    [method |-> "POST", uri |-> "/", auth |-> "Basic dXNlcm5hbWU6cGFzc3dvcmQ=",
     body |-> "Body"]

\* request objects: the one Boomer.Request points to, the one a worker got
\* from fasthttp.AcquireRequest, and no object
RequestPtr == [kind |-> "Request", of |-> 0]
OwnReq(w) == [kind |-> "req", of |-> w]
NilPtr == [kind |-> "nil", of |-> 0]

\* ------------------------------------------------------ fasthttp.Response
\* a response whose Reset has just been called
BlankResp == [code |-> 0, size |-> 0, after |-> 0]

\* an answer of the server: status 200 and a body of four bytes, after one
\* unit of time
TestResponse == [code |-> 200, size |-> 4, after |-> 1]

\* an answer with another status and no body, after no measurable time
ErrorPage == [code |-> 500, size |-> 0, after |-> 0]

\* the server of the tests, and one that answers some requests with an error
\* page
TestServer == [answers |-> {TestResponse}, failures |-> {"connection refused"}]
FailingServer ==
    [answers |-> {TestResponse, ErrorPage}, failures |-> {"connection refused"}]

\* a server whose requests fail in two ways
FlakyServer ==
    [answers |-> {TestResponse, ErrorPage},
     failures |-> {"connection refused", "timeout"}]

\* what resp holds when client.Do returns: the response of this request, or,
\* after an error, nothing or whatever part of a response had arrived
RespAfter(r) == IF r = "ok" THEN target.answers ELSE {BlankResp} \cup target.answers

\* the response the server gave to the request, none when the request failed
Answer(r, resp) == IF r = "ok" THEN resp ELSE BlankResp

\* no call of client.Do has been made in this iteration
NoCall == [obj |-> NilPtr, req |-> Blank, answer |-> BlankResp]

\* ------------------------------------------------------------------ Result
NoResult == [kind |-> "none", code |-> 0, size |-> 0, dur |-> 0, msg |-> ""]

\* time.Now().Sub(s): the time the answer took; a failed call is taken to
\* return at once
Elapsed(r, resp) == Answer(r, resp).after

\* a worker that reads the response whether or not the request failed
ResultOfAnyResp(r, resp, e) ==
    [kind |-> r, code |-> resp.code, size |-> resp.size,
     dur |-> Elapsed(r, resp), msg |-> IF r = "ok" THEN "" ELSE e]

\* var code, size int; if err == nil { size = resp.Header.ContentLength();
\* code = resp.Header.StatusCode() }; Result{StatusCode: code, Err: err,
\* ContentLength: size}
ResultOf(r, resp, e) ==
    [kind |-> r,
     code |-> IF r = "ok" THEN resp.code ELSE 0,
     size |-> IF r = "ok" THEN resp.size ELSE 0,
     dur |-> Elapsed(r, resp),
     msg |-> IF r = "ok" THEN "" ELSE e]


\* a copy that leaves the body behind
CopyToNoBody(r) == [method |-> r.method, uri |-> r.uri, auth |-> r.auth, body |-> ""]

\* r.CopyTo(req): what req holds afterwards
CopyTo(r) == [method |-> r.method, uri |-> r.uri, auth |-> r.auth, body |-> r.body]

\* ------------------------------------------------- leakybucket/memory
\* a bucket created with as many tokens as the rate limit asked for
CapacityN(n) == n

\* WithRateLimit: memory.New().Create("pla", n-1, rate)
Capacity(n) == n - 1

\* Create(name, capacity, rate) at instant t: a full bucket whose first
\* refill instant is one period away
BucketCreate(capacity, t) ==
    [capacity |-> capacity, remaining |-> capacity, reset |-> t + Period]

NoBucket == [capacity |-> 0, remaining |-> 0, reset |-> 0]

\* bucket.Add(1) at instant t: past the refill instant the bucket is full
\* again and the next refill instant is one period after t; the token is
\* taken if one remains, otherwise the error is returned
BucketAdd(b, t) ==
    LET r == IF t > b.reset
                THEN [b EXCEPT !.remaining = b.capacity, !.reset = t + Period]
                ELSE b
    IN  IF r.remaining < 1
           THEN [bucket |-> r, err |-> TRUE]
           ELSE [bucket |-> [r EXCEPT !.remaining = r.remaining - 1], err |-> FALSE]

\* ------------------------------------------------------------ construction
\* NewBoomer(req).WithAmount(n).WithConcurrency(c).WithDuration(d)
\*               .WithRateLimit(q, time.Second)
WithAmountThenDuration(n, d) ==
    [N |-> IF d > 0 THEN 0 ELSE n, Duration |-> d]

\* a results channel one slot short
ResultsCapShort == C - 1

\* capacity of the results channel made by WithConcurrency
ResultsCap == C

\* runtime.NumCPU()
NumCPU == MaxC

\* --------------------------------------------- gohistogram.NumericHistogram
\* A bin holds the sum and the number of the samples merged into it; its value
\* is their mean sum / count, which is what the count-weighted mean of two
\* merged bins comes to. Values are compared by cross-multiplication.
Bin(v) == [sum |-> v, count |-> 1]

ValueLess(a, b) == a.sum * b.count < b.sum * a.count

ValueIs(a, v) == a.sum = v * a.count

\* New(maxBins K)
NewHistogram(k) == [bins |-> <<>>, total |-> 0, maxbins |-> k]

\* the gap between the bins k and k + 1, as numerator and denominator
Gap(bins, k) ==
    [num |-> bins[k + 1].sum * bins[k].count - bins[k].sum * bins[k + 1].count,
     den |-> bins[k].count * bins[k + 1].count]

GapLess(g, h) == g.num * h.den < h.num * g.den

\* the adjacent pair with the smallest gap, the lowest-indexed on a tie
Closest(bins) ==
    CHOOSE k \in 1..(Len(bins) - 1) :
        /\ \A j \in 1..(Len(bins) - 1) : ~GapLess(Gap(bins, j), Gap(bins, k))
        /\ \A j \in 1..(k - 1) : GapLess(Gap(bins, k), Gap(bins, j))

\* the bins k and k + 1 merged into one
Merge(bins, k) ==
    SubSeq(bins, 1, k - 1)
        \o <<[sum |-> bins[k].sum + bins[k + 1].sum,
              count |-> bins[k].count + bins[k + 1].count]>>
        \o SubSeq(bins, k + 2, Len(bins))

RECURSIVE Trim(_, _)
Trim(bins, k) ==
    IF Len(bins) <= k THEN bins ELSE Trim(Merge(bins, Closest(bins)), k)

\* the bins with one more sample of value v, before any merge
Insert(bins, v) ==
    IF \E k \in 1..Len(bins) : ValueIs(bins[k], v)
       THEN LET k == CHOOSE j \in 1..Len(bins) : ValueIs(bins[j], v)
            IN  [bins EXCEPT ![k] = [sum |-> @.sum + v, count |-> @.count + 1]]
       ELSE LET below == Cardinality({j \in 1..Len(bins) : ValueLess(bins[j], Bin(v))})
            IN  SubSeq(bins, 1, below) \o <<Bin(v)>> \o SubSeq(bins, below + 1, Len(bins))

\* Add(value v)
Add(h, v) ==
    [h EXCEPT !.bins = Trim(Insert(h.bins, v), h.maxbins), !.total = h.total + 1]

\* Count()
Count(h) == h.total

\* Bins()
Bins(h) == h.bins

\* twice the cumulative count up to the centre of bin k: the bins before it
\* and half of its own count
Centre(bins, k) ==
    LET before[j \in 0..(k - 1)] == IF j = 0 THEN 0 ELSE before[j - 1] + bins[j].count
    IN  2 * before[k - 1] + bins[k].count

\* the number 0, the value of a bin, and a value between two bins, as
\* numerator and denominator
Zero == [num |-> 0, den |-> 1]

ValueOf(b) == [num |-> b.sum, den |-> b.count]

\* the value at fn / fd of the way from the bin a to the bin b
Between(a, b, fn, fd) ==
    [num |-> a.sum * b.count * fd + (b.sum * a.count - a.sum * b.count) * fn,
     den |-> a.count * b.count * fd]

\* a Quantile that answers with the first or last bin outside their centres
QuantileClamped(h, pn, pd) ==
    LET bins == h.bins
        rank == 2 * pn * h.total
        at(k) == pd * Centre(bins, k)
    IN  IF h.total = 0 THEN Zero
        ELSE IF rank <= at(1) THEN ValueOf(bins[1])
        ELSE IF rank > at(Len(bins)) THEN ValueOf(bins[Len(bins)])
        ELSE LET k == CHOOSE j \in 1..(Len(bins) - 1) : at(j) < rank /\ rank <= at(j + 1)
             IN  Between(bins[k], bins[k + 1], rank - at(k), at(k + 1) - at(k))

\* Quantile(p) for p = pn / pd: the value at the rank p * Count(), found by
\* linear interpolation between the two bins whose centres enclose the rank;
\* 0 on no sample and on a rank before the first or after the last centre
Quantile(h, pn, pd) ==
    LET bins == h.bins
        rank == 2 * pn * h.total
        at(k) == pd * Centre(bins, k)
    IN  IF h.total = 0 THEN Zero
        ELSE IF rank < at(1) \/ rank > at(Len(bins)) THEN Zero
        ELSE IF rank = at(1) THEN ValueOf(bins[1])
        ELSE LET k == CHOOSE j \in 1..(Len(bins) - 1) : at(j) < rank /\ rank <= at(j + 1)
             IN  Between(bins[k], bins[k + 1], rank - at(k), at(k + 1) - at(k))

\* ---------------------------------------------------------- BasicInterface
\* a map with no key
NoKeys == [k \in {} |-> 0]

\* m[k]++ on a Go map: a missing key counts as 0
Incremented(m, k) ==
    [x \in DOMAIN m \cup {k} |->
        IF x = k THEN (IF k \in DOMAIN m THEN m[k] + 1 ELSE 1) ELSE m[x]]

\* the sum of the counts of a map
RECURSIVE SumOf(_)
SumOf(m) ==
    IF DOMAIN m = {} THEN 0
    ELSE LET k == CHOOSE x \in DOMAIN m : TRUE
         IN  m[k] + SumOf([x \in DOMAIN m \ {k} |-> m[x]])

\* a BasicInterface whose histogram has a bin too few
NewBasicInterfaceNarrow ==
    [avgTotal |-> 0, fastest |-> 0, slowest |-> 0,
     errorDist |-> NoKeys, statusCodeDist |-> NoKeys, sizeTotal |-> 0,
     histo |-> NewHistogram(MaxBins - 1), bar |-> 0]

\* a BasicInterface whose histogram has a bin too many
NewBasicInterfaceWide ==
    [avgTotal |-> 0, fastest |-> 0, slowest |-> 0,
     errorDist |-> NoKeys, statusCodeDist |-> NoKeys, sizeTotal |-> 0,
     histo |-> NewHistogram(MaxBins + 1), bar |-> 0]

\* NewBasicInterface(), and Start's progress bar at 0
NewBasicInterface ==
    [avgTotal |-> 0, fastest |-> 0, slowest |-> 0,
     errorDist |-> NoKeys, statusCodeDist |-> NoKeys, sizeTotal |-> 0,
     histo |-> NewHistogram(MaxBins), bar |-> 0]

\* if b.slowest == 0 || sec > b.slowest { b.slowest = sec }
Slowest(b, sec) == IF b.slowest = 0 \/ sec > b.slowest THEN sec ELSE b.slowest

\* if b.fastest == 0 || b.fastest > sec { b.fastest = sec }
Fastest(b, sec) == IF b.fastest = 0 \/ b.fastest > sec THEN sec ELSE b.fastest

\* a ProcessResult that counts the status code of a failed request as well
ProcessedWithStatus(b, res) ==
    LET counted ==
            IF res.kind = "err"
               THEN [b EXCEPT !.errorDist = Incremented(b.errorDist, res.msg),
                              !.statusCodeDist = Incremented(b.statusCodeDist, res.code)]
               ELSE [b EXCEPT !.slowest = Slowest(b, res.dur),
                              !.fastest = Fastest(b, res.dur),
                              !.histo = Add(b.histo, res.dur),
                              !.avgTotal = b.avgTotal + res.dur,
                              !.statusCodeDist = Incremented(b.statusCodeDist, res.code),
                              !.sizeTotal = IF res.size > 0 THEN b.sizeTotal + res.size
                                                            ELSE b.sizeTotal]
    IN  [counted EXCEPT !.bar = IF Duration = 0 THEN b.bar + 1 ELSE b.bar]

\* the statistics after ProcessResult(res)
Processed(b, res) ==
    LET counted ==
            IF res.kind = "err"
               THEN [b EXCEPT !.errorDist = Incremented(b.errorDist, res.msg)]
               ELSE [b EXCEPT !.slowest = Slowest(b, res.dur),
                              !.fastest = Fastest(b, res.dur),
                              !.histo = Add(b.histo, res.dur),
                              !.avgTotal = b.avgTotal + res.dur,
                              !.statusCodeDist = Incremented(b.statusCodeDist, res.code),
                              !.sizeTotal = IF res.size > 0 THEN b.sizeTotal + res.size
                                                            ELSE b.sizeTotal]
    IN  [counted EXCEPT !.bar = IF Duration = 0 THEN b.bar + 1 ELSE b.bar]

\* print() without its test of b.histo.Count()
SectionsUnguarded(b) ==
    {"summary", "status codes", "histogram", "latencies"}
      \cup (IF b.sizeTotal > 0 THEN {"data received"} ELSE {})
      \cup (IF DOMAIN b.errorDist # {} THEN {"errors"} ELSE {})

\* the sections print() writes
Sections(b) ==
    (IF Count(b.histo) > 0
        THEN {"summary", "status codes", "histogram", "latencies"}
                \cup (IF b.sizeTotal > 0 THEN {"data received"} ELSE {})
        ELSE {})
      \cup (IF DOMAIN b.errorDist # {} THEN {"errors"} ELSE {})

\* the run-time panics of print(): the integer division by Count() of the
\* response size per request, and bins[0] of printHistogram on no bin
Crashes(b) ==
    \/ "data received" \in Sections(b) /\ Count(b.histo) = 0
    \/ "histogram" \in Sections(b) /\ Bins(b.histo) = <<>>

\* what End computes and prints: the mean latency avgTotal / count, a float
\* division that gives NaN when the count is 0, and the sections
Ended(b) ==
    [average |-> [num |-> b.avgTotal, den |-> Count(b.histo)],
     sections |-> Sections(b),
     crashed |-> Crashes(b)]

\* no goroutine of the engine exists yet, nothing was dispatched or reported
Idle ==
    /\ running = FALSE
    /\ stopClosed = FALSE
    /\ closes = 0
    /\ jobsClosed = FALSE
    /\ wg = 0
    /\ results = <<>>
    /\ resultsClosed = FALSE
    /\ dpc = "idle"
    /\ i = 0
    /\ dexit = "none"
    /\ wpc = [w \in Workers |-> "off"]
    /\ wres = [w \in Workers |-> NoResult]
    /\ executed = 0
    /\ pubOk = 0
    /\ pubErr = 0
    /\ wjob = [w \in Workers |-> NilPtr]
    /\ wdo = [w \in Workers |-> NoCall]
    /\ cpc = "idle"
    /\ cres = NoResult
    /\ procOk = 0
    /\ procErr = 0
    /\ ui = NewBasicInterface
    /\ mpc = "run"
    /\ report = [c \in {"main", "sig"} |-> NoReport]
    /\ panicked = FALSE
    /\ exited = FALSE
    /\ now = 0
    /\ sent = <<>>
    /\ tokens = 0
    /\ runAt = -1
    /\ rpc = "off"
    /\ ri = 0
    /\ jobCloses = 0
    /\ lateSends = 0
    /\ queued = 0
    /\ rwg = 0

\* the state NewBoomer and the With* chain leave behind, before Run
BuiltFor(server) ==
    /\ \E n \in 0..MaxN, d \in {0, 1} :
          /\ N = WithAmountThenDuration(n, d).N
          /\ Duration = WithAmountThenDuration(n, d).Duration
    /\ C \in 1..MaxC
    /\ limited \in BOOLEAN
    /\ Q = IF limited THEN 1 ELSE 0
    /\ bucket = IF limited THEN BucketCreate(Capacity(Q), 0) ELSE NoBucket
    /\ Timeout = 0
    /\ template = TestRequest
    /\ target = server
    /\ fed = <<>>
    /\ calls = <<>>
    /\ Idle

Built == BuiltFor(TestServer)

\* the engine driven as a library: the caller of Run may call Stop before Wait
Init ==
    /\ Built
    /\ stopsMade = 0
    /\ spc = [timer |-> "off", sig |-> "off", caller |-> "off"]

\* the engine driven by the command line: its interrupt handler waits for
\* os.Interrupt
MainInit ==
    /\ Built
    /\ stopsMade = 0
    /\ spc = [timer |-> "off", sig |-> "armed", caller |-> "off"]

\* a panic or os.Exit ends every goroutine of the process
Alive == ~panicked /\ ~exited

\* --------------------------------------------------------- With* methods
\* the goroutine that built the Boomer is between two statements, before its
\* go processResults()
CallerFree ==
    /\ Alive
    /\ mpc \in {"run", "spawn"}
    /\ Len(calls) < MaxCalls

Called(op, arg) == Append(calls, [op |-> op, arg |-> arg])

\* b.Timeout = t
WithTimeout(t) ==
    /\ CallerFree
    /\ Timeout' = t
    /\ calls' = Called("WithTimeout", t)
    /\ UNCHANGED <<rerun, legacy, N, C, Duration, limited, Q, template, target, fed, eng, disp, work, cons, env, lim>>

\* if n > 0 { b.Duration = 0 }; b.N = n
WithAmount(n) ==
    /\ CallerFree
    /\ Duration' = IF n > 0 THEN 0 ELSE Duration
    /\ N' = n
    /\ calls' = Called("WithAmount", n)
    /\ UNCHANGED <<rerun, legacy, C, limited, Q, Timeout, template, target, fed, eng, disp, work, cons, env, lim>>

\* WithDuration that leaves b.N alone
WithDurationKeepN(d) ==
    /\ CallerFree
    /\ IF running
          THEN panicked' = TRUE /\ UNCHANGED <<N, Duration>>
          ELSE /\ N' = N
               /\ Duration' = d
               /\ panicked' = panicked
    /\ calls' = Called("WithDuration", d)
    /\ UNCHANGED <<rerun, legacy, C, limited, Q, Timeout, template, target, fed, eng, disp, work, cons,
                   mpc, stopsMade, spc, report, exited, lim>>

\* if b.running { panic(...) }; if d > 0 { b.N = 0 }; b.Duration = d
WithDuration(d) ==
    /\ CallerFree
    /\ IF running
          THEN panicked' = TRUE /\ UNCHANGED <<N, Duration>>
          ELSE /\ N' = IF d > 0 THEN 0 ELSE N
               /\ Duration' = d
               /\ panicked' = panicked
    /\ calls' = Called("WithDuration", d)
    /\ UNCHANGED <<rerun, legacy, C, limited, Q, Timeout, template, target, fed, eng, disp, work, cons,
                   mpc, stopsMade, spc, report, exited, lim>>

\* if n > 0 { b.bucket, _ = memory.New().Create("pla", n-1, rate) }
WithRateLimit(q) ==
    /\ CallerFree
    /\ IF q > 0
          THEN /\ limited' = TRUE
               /\ Q' = q
               /\ bucket' = BucketCreate(Capacity(q), now)
          ELSE UNCHANGED <<limited, Q, bucket>>
    /\ calls' = Called("WithRateLimit", q)
    /\ UNCHANGED <<rerun, legacy, N, C, Duration, Timeout, template, target, fed, eng, disp, work, cons, env,
                   now, sent, tokens, runAt>>

\* WithConcurrency of the older engine: no test of c == 0
WithConcurrencyAsGiven(c) ==
    /\ CallerFree
    /\ IF running
          THEN panicked' = TRUE /\ UNCHANGED <<C, results>>
          ELSE /\ C' = c
               /\ results' = <<>>
               /\ panicked' = panicked
    /\ calls' = Called("WithConcurrency", c)
    /\ UNCHANGED <<rerun, legacy, N, Duration, limited, Q, Timeout, template, target, fed, running, stopClosed,
                   closes, jobsClosed, wg, resultsClosed, disp, work, cons,
                   mpc, stopsMade, spc, report, exited, lim>>

\* if b.running { panic(...) }; if c == 0 { c = uint(runtime.NumCPU()) };
\* b.C = c; b.results = make(chan Result, c)
WithConcurrency(c) ==
    /\ CallerFree
    /\ IF running
          THEN panicked' = TRUE /\ UNCHANGED <<C, results>>
          ELSE /\ C' = IF c = 0 THEN NumCPU ELSE c
               /\ results' = <<>>
               /\ panicked' = panicked
    /\ calls' = Called("WithConcurrency", c)
    /\ UNCHANGED <<rerun, legacy, N, Duration, limited, Q, Timeout, template, target, fed, running, stopClosed,
                   closes, jobsClosed, wg, resultsClosed, disp, work, cons,
                   mpc, stopsMade, spc, report, exited, lim>>

\* ------------------------------------------------------------- Boomer.Run
Run ==
    /\ Alive
    /\ mpc = "run"
    /\ ~running
    /\ running' = TRUE
    /\ spc' = [spc EXCEPT !["timer"] = IF Duration > 0 THEN "armed" ELSE "off"]
    /\ wg' = wg + C + 1
    /\ wpc' = [w \in Workers |-> IF w <= C THEN "recv" ELSE "off"]
    /\ dpc' = "check"
    /\ mpc' = "spawn"
    /\ runAt' = now
    /\ UNCHANGED <<rerun, legacy, cfg, calls, stopClosed, closes, jobsClosed, results, resultsClosed,
                   i, dexit, wres, executed, pubOk, pubErr, wjob, wdo, cons,
                   stopsMade, report, panicked, exited, now, bucket, sent, tokens>>

\* ------------------------------------------------------------ Boomer.Stop
\* where a context goes when its Stop call returns
AfterStop(s) == CASE s = "timer" -> "done"
                  [] s = "sig" -> "end"
                  [] s = "caller" -> "off"

StopReturn(s) ==
    /\ spc' = [spc EXCEPT ![s] = AfterStop(s)]
    /\ mpc' = IF s = "caller" THEN "ready" ELSE mpc

\* the time.AfterFunc timer of Run fires
TimerFire ==
    /\ Alive
    /\ spc["timer"] = "armed"
    /\ spc' = [spc EXCEPT !["timer"] = "check"]
    /\ UNCHANGED <<rerun, legacy, cfg, lim, calls, eng, disp, work, cons, mpc, stopsMade, report, panicked, exited>>

\* os.Interrupt is delivered to the handler goroutine of main
Interrupt ==
    /\ Alive
    /\ spc["sig"] = "armed"
    /\ spc' = [spc EXCEPT !["sig"] = "check"]
    /\ UNCHANGED <<rerun, legacy, cfg, lim, calls, eng, disp, work, cons, mpc, stopsMade, report, panicked, exited>>

\* the caller of Run calls Stop before it calls Wait
CallStop ==
    /\ Alive
    /\ mpc = "ready"
    /\ stopsMade < MaxStops
    /\ stopsMade' = stopsMade + 1
    /\ mpc' = "instop"
    /\ spc' = [spc EXCEPT !["caller"] = "check"]
    /\ UNCHANGED <<rerun, legacy, cfg, lim, calls, eng, disp, work, cons, report, panicked, exited>>

\* if !b.running { return }
StopCheck(s) ==
    /\ Alive
    /\ spc[s] = "check"
    /\ IF running
          THEN spc' = [spc EXCEPT ![s] = "close"] /\ mpc' = mpc
          ELSE StopReturn(s)
    /\ UNCHANGED <<rerun, legacy, cfg, lim, calls, eng, disp, work, cons, stopsMade, report, panicked, exited>>

\* Stop that closes b.stop without resetting b.running
StopCloseKeepRunning(s) ==
    /\ Alive
    /\ spc[s] = "close"
    /\ running' = running
    /\ closes' = closes + 1
    /\ IF stopClosed
          THEN panicked' = TRUE /\ stopClosed' = stopClosed
          ELSE stopClosed' = TRUE /\ panicked' = panicked
    /\ StopReturn(s)
    /\ UNCHANGED <<rerun, legacy, cfg, lim, calls, jobsClosed, wg, results, resultsClosed, disp, work, cons,
                   stopsMade, report, exited>>

\* b.running = false; close(b.stop)
StopClose(s) ==
    /\ Alive
    /\ spc[s] = "close"
    /\ running' = FALSE
    /\ closes' = closes + 1
    /\ IF stopClosed
          THEN panicked' = TRUE /\ stopClosed' = stopClosed
          ELSE stopClosed' = TRUE /\ panicked' = panicked
    /\ StopReturn(s)
    /\ UNCHANGED <<rerun, legacy, cfg, lim, calls, jobsClosed, wg, results, resultsClosed, disp, work, cons,
                   stopsMade, report, exited>>

\* ----------------------------------------------------- Boomer.triggerLoop
\* the loop test written with > in place of >=
LoopDoneOffByOne(n) == Duration = 0 /\ n > N

\* if b.Duration == 0 && i >= b.N { return }
LoopDone(n) == Duration = 0 /\ n >= N

\* return, then the deferred close(b.jobs), which panics on a channel that
\* is closed already, and b.wg.Done()
TriggerReturn(why) ==
    /\ dpc' = "done"
    /\ dexit' = why
    /\ jobCloses' = jobCloses + 1
    /\ jobsClosed' = TRUE
    /\ panicked' = (panicked \/ jobsClosed)
    /\ wg' = wg - 1

\* a loop test that looks at the count in duration mode too
TriggerCheckIgnoreDuration ==
    /\ Alive
    /\ dpc = "check"
    /\ IF i >= N
          THEN TriggerReturn("count") /\ i' = i
          ELSE dpc' = "select" /\ UNCHANGED <<i, dexit, jobsClosed, jobCloses, wg, panicked>>
    /\ UNCHANGED <<rpc, ri, lateSends, legacy, cfg, lim, calls, running, stopClosed, closes,
                   results, resultsClosed, work, cons, mpc, stopsMade, spc, report, exited>>

\* for { if b.Duration == 0 && i >= b.N { return }; select { ... } }
TriggerCheck ==
    /\ Alive
    /\ dpc = "check"
    /\ IF LoopDone(i)
          THEN TriggerReturn("count") /\ i' = i
          ELSE dpc' = "select" /\ UNCHANGED <<i, dexit, jobsClosed, jobCloses, wg, panicked>>
    /\ UNCHANGED <<rpc, ri, lateSends, legacy, cfg, lim, calls, running, stopClosed, closes,
                   results, resultsClosed, work, cons, mpc, stopsMade, spc, report, exited>>

\* a stop case that leaves the loop without the deferred close(b.jobs)
TriggerStopNoClose ==
    /\ Alive
    /\ dpc = "select"
    /\ stopClosed
    /\ dpc' = "done"
    /\ dexit' = "stop"
    /\ wg' = wg - 1
    /\ UNCHANGED <<rerun, legacy, cfg, lim, calls, running, stopClosed, closes, jobsClosed, results,
                   resultsClosed, i, work, cons, env>>

\* select: case <-b.stop: return
TriggerStop ==
    /\ Alive
    /\ dpc = "select"
    /\ stopClosed
    /\ TriggerReturn("stop")
    /\ UNCHANGED <<rpc, ri, lateSends, legacy, cfg, lim, calls, running, stopClosed, closes,
                   results, resultsClosed, i, work, cons, mpc, stopsMade, spc, report, exited>>

\* err := b.checkRateLimit(): nil without a bucket, otherwise whatever
\* bucket.Add(1) answers
RateLimitErrs == IF limited THEN BOOLEAN ELSE {FALSE}

\* a dispatcher on a job queue with room: the send completes whether or not a
\* worker is receiving
TriggerSendBuffered(w) ==
    /\ Alive
    /\ dpc = "select"
    /\ wpc[w] # "off"
    /\ ~jobsClosed
    /\ Duration > 0 => i < MaxJobs
    /\ i' = i + 1
    /\ \E err \in RateLimitErrs : dpc' = IF err THEN "sleep" ELSE "check"
    /\ wpc' = [wpc EXCEPT ![w] = IF @ = "recv" THEN "exec" ELSE @]
    /\ wjob' = [wjob EXCEPT ![w] = IF wpc[w] = "recv" THEN RequestPtr ELSE @]
    /\ UNCHANGED <<rerun, legacy, cfg, lim, calls, eng, dexit, wres, executed, pubOk, pubErr,
                   wdo, cons, env>>

\* select: case b.jobs <- b.Request: i++; err := b.checkRateLimit()
\* (b.jobs is unbuffered: the send completes together with the receive of a
\* worker's range b.jobs; with err # nil the dispatcher goes to sleep)
TriggerSend(w) ==
    /\ Alive
    /\ dpc = "select"
    /\ wpc[w] = "recv"
    /\ ~jobsClosed
    /\ Duration > 0 => i < MaxJobs
    /\ i' = i + 1
    /\ \E err \in RateLimitErrs : dpc' = IF err THEN "sleep" ELSE "check"
    /\ wpc' = [wpc EXCEPT ![w] = "exec"]
    /\ wjob' = [wjob EXCEPT ![w] = RequestPtr]
    /\ UNCHANGED <<rerun, legacy, cfg, lim, calls, eng, dexit, wres, executed, pubOk, pubErr,
                   wdo, cons, env>>

\* time.Sleep(b.bucket.Reset().Sub(time.Now())) returns
TriggerWake ==
    /\ Alive
    /\ dpc = "sleep"
    /\ dpc' = "check"
    /\ UNCHANGED <<rerun, legacy, cfg, lim, calls, eng, i, dexit, work, cons, env>>

\* ------------------------------------- Boomer.triggerLoop against the clock
\* checkRateLimit(): nil without a bucket, otherwise what bucket.Add(1) says
checkRateLimit ==
    IF limited THEN BucketAdd(bucket, now) ELSE [bucket |-> bucket, err |-> FALSE]

\* select: case b.jobs <- b.Request: i++; err := b.checkRateLimit(), with the
\* bucket and the clock in the state
RateSend(w) ==
    /\ Alive
    /\ dpc = "select"
    /\ wpc[w] = "recv"
    /\ ~jobsClosed
    /\ Duration > 0 => i < MaxJobs
    /\ i' = i + 1
    /\ sent' = Append(sent, now)
    /\ bucket' = checkRateLimit.bucket
    /\ tokens' = tokens + (IF limited /\ ~checkRateLimit.err THEN 1 ELSE 0)
    /\ dpc' = IF checkRateLimit.err THEN "sleep" ELSE "check"
    /\ wpc' = [wpc EXCEPT ![w] = "exec"]
    /\ wjob' = [wjob EXCEPT ![w] = RequestPtr]
    /\ UNCHANGED <<rerun, legacy, cfg, calls, eng, dexit, wres, executed, pubOk, pubErr,
                   wdo, cons, env, now, runAt>>

\* time.Sleep(b.bucket.Reset().Sub(time.Now())) returns: the refill instant
\* is behind
RateWake ==
    /\ Alive
    /\ dpc = "sleep"
    /\ now > bucket.reset
    /\ dpc' = "check"
    /\ UNCHANGED <<rerun, legacy, cfg, lim, calls, eng, i, dexit, work, cons, env>>

\* the clock advances
Tick ==
    /\ Alive
    /\ now < Horizon
    /\ now' = now + 1
    /\ UNCHANGED <<rerun, legacy, cfg, calls, eng, disp, work, cons, env, bucket, sent, tokens, runAt>>

\* select: case b.jobs <- b.Request on a b.jobs that another triggerLoop has
\* closed: the send is ready at once and panics
TriggerSendClosed ==
    /\ Alive
    /\ dpc = "select"
    /\ jobsClosed
    /\ lateSends' = lateSends + 1
    /\ panicked' = TRUE
    /\ UNCHANGED <<rpc, ri, jobCloses, legacy, cfg, lim, calls, eng, disp, work, cons,
                   mpc, stopsMade, spc, report, exited>>

\* ------------------------------------------------------ Boomer.Run, again
\* the workers a second Run starts
Second == (C + 1)..(2 * C)

\* Run called once more by the caller of the first Run, before Wait:
\* if b.running { return }; b.running = true; ...; b.runWorkers(), which adds
\* to the same WaitGroup and starts C more workers and one more triggerLoop on
\* the same b.jobs and b.stop. (A third start would need a second Stop call to
\* return, and that call dies closing b.stop again.)
RunAgain ==
    /\ Alive
    /\ mpc = "ready"
    /\ Len(calls) < MaxCalls
    /\ rpc = "off"
    /\ calls' = Called("Run", 0)
    /\ IF running
          THEN UNCHANGED <<running, spc, wg, wpc, rpc>>
          ELSE /\ running' = TRUE
               /\ spc' = [spc EXCEPT !["timer"] = IF Duration > 0 THEN "armed" ELSE @]
               /\ wg' = wg + C + 1
               /\ wpc' = [w \in Workers |-> IF w \in Second THEN "recv" ELSE wpc[w]]
               /\ rpc' = "check"
    /\ UNCHANGED <<ri, jobCloses, lateSends, legacy, cfg, lim, stopClosed, closes,
                   jobsClosed, results, resultsClosed, disp, wres, executed, pubOk, pubErr,
                   wjob, wdo, cons, mpc, stopsMade, report, panicked, exited>>

\* return of the second triggerLoop, then its deferred close(b.jobs) and
\* b.wg.Done()
RerunReturn ==
    /\ rpc' = "done"
    /\ jobCloses' = jobCloses + 1
    /\ jobsClosed' = TRUE
    /\ panicked' = (panicked \/ jobsClosed)
    /\ wg' = wg - 1

\* for { if b.Duration == 0 && i >= b.N { return }; select { ... } }
RerunCheck ==
    /\ Alive
    /\ rpc = "check"
    /\ IF LoopDone(ri)
          THEN RerunReturn
          ELSE rpc' = "select" /\ UNCHANGED <<jobsClosed, jobCloses, wg, panicked>>
    /\ UNCHANGED <<ri, lateSends, legacy, cfg, lim, calls, running, stopClosed, closes,
                   results, resultsClosed, disp, work, cons, mpc, stopsMade, spc, report,
                   exited>>

\* select: case <-b.stop: return
RerunStop ==
    /\ Alive
    /\ rpc = "select"
    /\ stopClosed
    /\ RerunReturn
    /\ UNCHANGED <<ri, lateSends, legacy, cfg, lim, calls, running, stopClosed, closes,
                   results, resultsClosed, disp, work, cons, mpc, stopsMade, spc, report,
                   exited>>

\* select: case b.jobs <- b.Request: i++; err := b.checkRateLimit()
RerunSend(w) ==
    /\ Alive
    /\ rpc = "select"
    /\ wpc[w] = "recv"
    /\ ~jobsClosed
    /\ Duration > 0 => ri < MaxJobs
    /\ ri' = ri + 1
    /\ \E err \in RateLimitErrs : rpc' = IF err THEN "sleep" ELSE "check"
    /\ wpc' = [wpc EXCEPT ![w] = "exec"]
    /\ wjob' = [wjob EXCEPT ![w] = RequestPtr]
    /\ UNCHANGED <<jobCloses, lateSends, legacy, cfg, lim, calls, eng, disp, wres, executed,
                   pubOk, pubErr, wdo, cons, env>>

\* select: case b.jobs <- b.Request on the closed b.jobs
RerunSendClosed ==
    /\ Alive
    /\ rpc = "select"
    /\ jobsClosed
    /\ lateSends' = lateSends + 1
    /\ panicked' = TRUE
    /\ UNCHANGED <<rpc, ri, jobCloses, legacy, cfg, lim, calls, eng, disp, work, cons,
                   mpc, stopsMade, spc, report, exited>>

\* time.Sleep(b.bucket.Reset().Sub(time.Now())) returns
RerunWake ==
    /\ Alive
    /\ rpc = "sleep"
    /\ rpc' = "check"
    /\ UNCHANGED <<ri, jobCloses, lateSends, legacy, cfg, lim, calls, eng, disp, work, cons,
                   env>>

\* ------------------------------------------------------- Boomer.runWorker
\* a worker that executes the request it received instead of its own copy
DoneOnJob(w, r) == r

\* the request object a worker passes to client.Do for the job r: its own req
DoneOn(w, r) == OwnReq(w)

\* a worker that returns when client.Do fails
WorkerExecQuitOnErr(w) ==
    /\ Alive
    /\ wpc[w] = "exec"
    /\ \E r \in Outcomes : \E resp \in RespAfter(r) : \E e \in target.failures :
          IF r = "err"
             THEN /\ wpc' = [wpc EXCEPT ![w] = "done"]
                  /\ wg' = wg - 1
                  /\ wjob' = [wjob EXCEPT ![w] = NilPtr]
                  /\ UNCHANGED <<wres, wdo>>
             ELSE /\ wres' = [wres EXCEPT ![w] = ResultOf(r, resp, e)]
                  /\ wdo' = [wdo EXCEPT ![w] = [obj |-> DoneOn(w, wjob[w]),
                                                req |-> CopyTo(template),
                                                answer |-> Answer(r, resp)]]
                  /\ wpc' = [wpc EXCEPT ![w] = "notify"]
                  /\ UNCHANGED <<wg, wjob>>
    /\ executed' = executed + 1
    /\ UNCHANGED <<rerun, legacy, cfg, lim, calls, running, stopClosed, closes, jobsClosed, results,
                   resultsClosed, disp, pubOk, pubErr, cons, env>>

\* req.Reset(); r.CopyTo(req); client.Do / client.DoTimeout returns, with or
\* without an error
WorkerExec(w) ==
    /\ Alive
    /\ wpc[w] = "exec"
    /\ \E r \in Outcomes : \E resp \in RespAfter(r) : \E e \in target.failures :
          /\ wres' = [wres EXCEPT ![w] = ResultOf(r, resp, e)]
          /\ wdo' = [wdo EXCEPT ![w] = [obj |-> DoneOn(w, wjob[w]),
                                        req |-> CopyTo(template),
                                        answer |-> Answer(r, resp)]]
    /\ executed' = executed + 1
    /\ wpc' = [wpc EXCEPT ![w] = "notify"]
    /\ UNCHANGED <<rerun, legacy, cfg, lim, calls, eng, disp, pubOk, pubErr, wjob, cons, env>>

\* a worker that publishes nothing for a failed request
WorkerNotifyDropErr(w) ==
    /\ Alive
    /\ wpc[w] = "notify"
    /\ IF resultsClosed /\ wres[w].kind = "ok"
          THEN /\ panicked' = TRUE
               /\ UNCHANGED <<results, pubOk, pubErr, wpc, wres, wjob, wdo>>
          ELSE /\ wres[w].kind = "ok" => Len(results) < ResultsCap
               /\ results' = IF wres[w].kind = "ok" THEN Append(results, wres[w]) ELSE results
               /\ pubOk' = pubOk + (IF wres[w].kind = "ok" THEN 1 ELSE 0)
               /\ pubErr' = pubErr
               /\ wpc' = [wpc EXCEPT ![w] = "recv"]
               /\ wres' = [wres EXCEPT ![w] = NoResult]
               /\ wjob' = [wjob EXCEPT ![w] = NilPtr]
               /\ wdo' = [wdo EXCEPT ![w] = NoCall]
               /\ panicked' = panicked
    /\ UNCHANGED <<rerun, legacy, cfg, lim, calls, running, stopClosed, closes, jobsClosed, wg, resultsClosed,
                   disp, executed, cons, mpc, stopsMade, spc, report, exited>>

\* b.notifyResult(...): b.results <- Result{...}
WorkerNotify(w) ==
    /\ Alive
    /\ wpc[w] = "notify"
    /\ IF resultsClosed
          THEN /\ panicked' = TRUE
               /\ UNCHANGED <<results, pubOk, pubErr, wpc, wres, wjob, wdo>>
          ELSE /\ Len(results) < ResultsCap
               /\ results' = Append(results, wres[w])
               /\ pubOk' = pubOk + (IF wres[w].kind = "ok" THEN 1 ELSE 0)
               /\ pubErr' = pubErr + (IF wres[w].kind = "err" THEN 1 ELSE 0)
               /\ wpc' = [wpc EXCEPT ![w] = "recv"]
               /\ wres' = [wres EXCEPT ![w] = NoResult]
               /\ wjob' = [wjob EXCEPT ![w] = NilPtr]
               /\ wdo' = [wdo EXCEPT ![w] = NoCall]
               /\ panicked' = panicked
    /\ UNCHANGED <<rerun, legacy, cfg, lim, calls, running, stopClosed, closes, jobsClosed, wg, resultsClosed,
                   disp, executed, cons, mpc, stopsMade, spc, report, exited>>

\* a worker that returns without b.wg.Done()
WorkerExitNoDone(w) ==
    /\ Alive
    /\ wpc[w] = "recv"
    /\ jobsClosed
    /\ wpc' = [wpc EXCEPT ![w] = "done"]
    /\ UNCHANGED <<rerun, legacy, cfg, lim, calls, eng, disp, wres, executed, pubOk, pubErr,
                   wjob, wdo, cons, env>>

\* range b.jobs ends on the closed channel; b.wg.Done()
WorkerExit(w) ==
    /\ Alive
    /\ wpc[w] = "recv"
    /\ jobsClosed
    /\ wpc' = [wpc EXCEPT ![w] = "done"]
    /\ wg' = wg - 1
    /\ UNCHANGED <<rerun, legacy, cfg, lim, calls, running, stopClosed, closes, jobsClosed, results,
                   resultsClosed, disp, wres, executed, pubOk, pubErr,
                   wjob, wdo, cons, env>>

\* ------------------------------------------------- main: processResults
\* go processResults()
StartConsumer ==
    /\ Alive
    /\ mpc = "spawn"
    /\ mpc' = "ready"
    /\ cpc' = "recv"
    /\ UNCHANGED <<rerun, legacy, cfg, lim, calls, eng, disp, work, cres, procOk, procErr, ui,
                   stopsMade, spc, report, panicked, exited>>

\* for res := range boomerInstance.Results(): one Result is received
ConsumerRecv ==
    /\ Alive
    /\ cpc = "recv"
    /\ results # <<>>
    /\ cres' = Head(results)
    /\ results' = Tail(results)
    /\ cpc' = "proc"
    /\ UNCHANGED <<rerun, legacy, cfg, lim, calls, running, stopClosed, closes, jobsClosed, wg, resultsClosed,
                   disp, work, procOk, procErr, ui, env>>

\* ui.ProcessResult(res)
ProcessResult ==
    /\ Alive
    /\ cpc = "proc"
    /\ procOk' = procOk + (IF cres.kind = "ok" THEN 1 ELSE 0)
    /\ procErr' = procErr + (IF cres.kind = "err" THEN 1 ELSE 0)
    /\ ui' = Processed(ui, cres)
    /\ cres' = NoResult
    /\ cpc' = "recv"
    /\ UNCHANGED <<rerun, legacy, cfg, lim, calls, eng, disp, work, env>>

\* the range ends: the channel is closed and holds nothing
ConsumerEnd ==
    /\ Alive
    /\ cpc = "recv"
    /\ results = <<>>
    /\ resultsClosed
    /\ cpc' = "done"
    /\ UNCHANGED <<rerun, legacy, cfg, lim, calls, eng, disp, work, cres, procOk, procErr, ui, env>>

\* ------------------------------------------------------------ Boomer.Wait
\* Wait that closes b.results without b.wg.Wait()
WaitNoWg ==
    /\ Alive
    /\ mpc = "ready"
    /\ IF resultsClosed
          THEN panicked' = TRUE /\ resultsClosed' = resultsClosed
          ELSE resultsClosed' = TRUE /\ panicked' = panicked
    /\ mpc' = "sleep"
    /\ UNCHANGED <<rerun, legacy, cfg, lim, calls, running, stopClosed, closes, jobsClosed, wg, results,
                   disp, work, cons, stopsMade, spc, report, exited>>

\* b.wg.Wait(); close(b.results)
Wait ==
    /\ Alive
    /\ mpc = "ready"
    /\ wg = 0
    /\ IF resultsClosed
          THEN panicked' = TRUE /\ resultsClosed' = resultsClosed
          ELSE resultsClosed' = TRUE /\ panicked' = panicked
    /\ mpc' = "sleep"
    /\ UNCHANGED <<rerun, legacy, cfg, lim, calls, running, stopClosed, closes, jobsClosed, wg, results,
                   disp, work, cons, stopsMade, spc, report, exited>>

\* ------------------------------------------------------ BasicInterface.End
\* what End reads: histo.Count() and errorDist, next to what the engine has
\* done by then
Snapshot ==
    [made |-> TRUE, cancelled |-> stopClosed, ok |-> procOk, err |-> procErr, disp |-> i,
     pub |-> pubOk + pubErr,
     pending |-> Len(results) + (IF cpc = "proc" THEN 1 ELSE 0),
     average |-> Ended(ui).average, sections |-> Ended(ui).sections,
     crashed |-> Ended(ui).crashed]

\* main: time.Sleep(1 * time.Millisecond); ui.End()
MainEnd ==
    /\ Alive
    /\ mpc = "sleep"
    /\ report' = [report EXCEPT !["main"] = Snapshot]
    /\ mpc' = "done"
    /\ UNCHANGED <<rerun, legacy, cfg, lim, calls, eng, disp, work, cons, stopsMade, spc, panicked, exited>>

\* interrupt handler: ui.End(); os.Exit(1)
SigEnd ==
    /\ Alive
    /\ spc["sig"] = "end"
    /\ report' = [report EXCEPT !["sig"] = Snapshot]
    /\ exited' = TRUE
    /\ spc' = [spc EXCEPT !["sig"] = "done"]
    /\ UNCHANGED <<rerun, legacy, cfg, lim, calls, eng, disp, work, cons, mpc, stopsMade, panicked>>

\* ---------------------------------------------------------- specification
Engine ==
    \/ Run
    \/ TimerFire
    \/ \E s \in Stoppers : StopCheck(s)
    \/ \E s \in Stoppers : StopClose(s)
    \/ TriggerCheck
    \/ TriggerStop
    \/ \E w \in Workers : TriggerSend(w)
    \/ TriggerWake
    \/ \E w \in Workers : WorkerExec(w)
    \/ \E w \in Workers : WorkerNotify(w)
    \/ \E w \in Workers : WorkerExit(w)
    \/ StartConsumer
    \/ ConsumerRecv
    \/ ProcessResult
    \/ ConsumerEnd
    \/ Wait

Next ==
    \/ Engine
    \/ CallStop

Spec == Init /\ [][Next]_vars

MainNext ==
    \/ Engine
    \/ Interrupt
    \/ SigEnd
    \/ MainEnd

MainSpec == MainInit /\ [][MainNext]_vars

\* the engine run against a server that answers some requests with an error
\* page
OutcomeInit ==
    /\ BuiltFor(FailingServer)
    /\ stopsMade = 0
    /\ spc = [timer |-> "off", sig |-> "off", caller |-> "off"]

OutcomeSpec == OutcomeInit /\ [][Next]_vars

\* a count-mode Boomer whose caller calls Run and Stop again and again before
\* Wait, with room among the workers for those of a second start
RerunInit ==
    /\ Built
    /\ Duration = 0
    /\ 2 * C <= MaxC
    /\ stopsMade = 0
    /\ spc = [timer |-> "off", sig |-> "off", caller |-> "off"]

RerunNext ==
    \/ Run
    \/ RunAgain
    \/ CallStop
    \/ \E s \in Stoppers : StopCheck(s)
    \/ \E s \in Stoppers : StopClose(s)
    \/ TriggerCheck
    \/ TriggerStop
    \/ \E w \in Workers : TriggerSend(w)
    \/ TriggerSendClosed
    \/ TriggerWake
    \/ RerunCheck
    \/ RerunStop
    \/ \E w \in Workers : RerunSend(w)
    \/ RerunSendClosed
    \/ RerunWake
    \/ \E w \in Workers : WorkerExec(w)
    \/ \E w \in Workers : WorkerNotify(w)
    \/ \E w \in Workers : WorkerExit(w)
    \/ StartConsumer
    \/ ConsumerRecv
    \/ ProcessResult
    \/ ConsumerEnd
    \/ Wait

RerunSpec == RerunInit /\ [][RerunNext]_vars

\* ------------------------------------------- the older engine: blocking Run
\* a Boomer of the older engine with its fields N, C and Qps set, before Run
LegacyInit ==
    /\ Built
    /\ Duration = 0
    /\ stopsMade = 0
    /\ spc = [timer |-> "off", sig |-> "off", caller |-> "off"]

\* the request cloneRequest made for a job
Clone == [kind |-> "clone", of |-> 0]

\* Run: b.results = make(chan *result, b.N); b.stop = make(chan struct{});
\* startProgress; signal.Notify and the goroutine that waits for the
\* interrupt; then runWorkers up to its loop: wg.Add(b.C), jobsch made with
\* room for b.C jobs, b.C workers started
LegacyRun ==
    /\ mpc = "run"
    /\ mpc' = "loop"
    /\ spc' = [spc EXCEPT !["sig"] = "armed"]
    /\ wg' = C
    /\ wpc' = [w \in Workers |-> IF w <= C THEN "recv" ELSE "off"]
    /\ UNCHANGED <<rerun, legacy, cfg, lim, calls, running, stopClosed, closes, jobsClosed,
                   results, resultsClosed, disp, wres, executed, pubOk, pubErr, wjob, wdo,
                   cons, stopsMade, report, panicked, exited>>

\* the interrupt arrives: b.finalizeProgress(); close(b.stop)
LegacyInterrupt ==
    /\ spc["sig"] = "armed"
    /\ spc' = [spc EXCEPT !["sig"] = "done"]
    /\ stopClosed' = TRUE
    /\ closes' = closes + 1
    /\ UNCHANGED <<rerun, legacy, cfg, lim, calls, running, jobsClosed, wg, results,
                   resultsClosed, disp, work, cons, mpc, stopsMade, report, panicked, exited>>

\* for i := 0; i < b.N; i++ { if b.Qps > 0 { <-throttle } ...: the loop test
LegacyLoop ==
    /\ mpc = "loop"
    /\ mpc' = IF i >= N THEN "close" ELSE IF limited THEN "throttle" ELSE "select"
    /\ UNCHANGED <<rerun, legacy, cfg, lim, calls, eng, disp, work, cons, stopsMade, spc,
                   report, panicked, exited>>

\* <-throttle: the next tick arrives
LegacyThrottle ==
    /\ mpc = "throttle"
    /\ mpc' = "select"
    /\ UNCHANGED <<rerun, legacy, cfg, lim, calls, eng, disp, work, cons, stopsMade, spc,
                   report, panicked, exited>>

\* select: case <-b.stop: break Loop
LegacyBreak ==
    /\ mpc = "select"
    /\ stopClosed
    /\ mpc' = "close"
    /\ UNCHANGED <<rerun, legacy, cfg, lim, calls, eng, disp, work, cons, stopsMade, spc,
                   report, panicked, exited>>

\* select: case jobsch <- cloneRequest(b.Request): continue
LegacySend ==
    /\ mpc = "select"
    /\ queued < C
    /\ queued' = queued + 1
    /\ i' = i + 1
    /\ mpc' = "loop"
    /\ UNCHANGED <<rerun, rwg, cfg, lim, calls, eng, dpc, dexit, work, cons, stopsMade, spc,
                   report, panicked, exited>>

\* close(jobsch)
LegacyClose ==
    /\ mpc = "close"
    /\ jobsClosed' = TRUE
    /\ jobCloses' = jobCloses + 1
    /\ mpc' = "wait"
    /\ UNCHANGED <<rpc, ri, lateSends, legacy, cfg, lim, calls, running, stopClosed, closes, wg,
                   results, resultsClosed, disp, work, cons, stopsMade, spc, report, panicked,
                   exited>>

\* for req := range ch: a job is taken from jobsch
LegacyWorkerRecv(w) ==
    /\ wpc[w] = "recv"
    /\ queued > 0
    /\ queued' = queued - 1
    /\ wpc' = [wpc EXCEPT ![w] = "exec"]
    /\ wjob' = [wjob EXCEPT ![w] = Clone]
    /\ UNCHANGED <<rerun, rwg, cfg, lim, calls, eng, disp, wres, executed, pubOk, pubErr,
                   wdo, cons, env>>

\* err := client.Do(req, resp); if err == nil { size = ...; code = ... }
LegacyWorkerExec(w) ==
    /\ wpc[w] = "exec"
    /\ \E r \in Outcomes : \E resp \in RespAfter(r) : \E e \in target.failures :
          /\ wres' = [wres EXCEPT ![w] = ResultOf(r, resp, e)]
          /\ wdo' = [wdo EXCEPT ![w] = [obj |-> wjob[w],
                                        req |-> CopyTo(template),
                                        answer |-> Answer(r, resp)]]
    /\ executed' = executed + 1
    /\ wpc' = [wpc EXCEPT ![w] = "notify"]
    /\ UNCHANGED <<rerun, legacy, cfg, lim, calls, eng, disp, pubOk, pubErr, wjob, cons, env>>

\* b.incProgress(); b.results <- &result{...}
LegacyWorkerNotify(w) ==
    /\ wpc[w] = "notify"
    /\ Len(results) < N
    /\ ui' = [ui EXCEPT !.bar = @ + 1]
    /\ results' = Append(results, wres[w])
    /\ pubOk' = pubOk + (IF wres[w].kind = "ok" THEN 1 ELSE 0)
    /\ pubErr' = pubErr + (IF wres[w].kind = "err" THEN 1 ELSE 0)
    /\ wpc' = [wpc EXCEPT ![w] = "recv"]
    /\ wres' = [wres EXCEPT ![w] = NoResult]
    /\ wjob' = [wjob EXCEPT ![w] = NilPtr]
    /\ wdo' = [wdo EXCEPT ![w] = NoCall]
    /\ UNCHANGED <<rerun, legacy, cfg, lim, calls, running, stopClosed, closes, jobsClosed, wg,
                   resultsClosed, disp, executed, cpc, cres, procOk, procErr, env>>

\* the range over ch ends: jobsch is closed and empty; wg.Done()
LegacyWorkerExit(w) ==
    /\ wpc[w] = "recv"
    /\ queued = 0
    /\ jobsClosed
    /\ wpc' = [wpc EXCEPT ![w] = "done"]
    /\ wg' = wg - 1
    /\ UNCHANGED <<rerun, legacy, cfg, lim, calls, running, stopClosed, closes, jobsClosed,
                   results, resultsClosed, disp, wres, executed, pubOk, pubErr, wjob, wdo,
                   cons, env>>

\* wg.Wait() of runWorkers returns; b.finalizeProgress(); newReport(...):
\* wg.Add(1); go r.process()
LegacyReport ==
    /\ mpc = "wait"
    /\ wg = 0
    /\ rwg' = 1
    /\ cpc' = "recv"
    /\ mpc' = "finalize"
    /\ UNCHANGED <<rerun, queued, cfg, lim, calls, eng, disp, work, cres, procOk, procErr, ui,
                   stopsMade, spc, report, panicked, exited>>

\* process: for res := range r.results: one result is received
LegacyProcessRecv ==
    /\ cpc = "recv"
    /\ results # <<>>
    /\ cres' = Head(results)
    /\ results' = Tail(results)
    /\ cpc' = "proc"
    /\ UNCHANGED <<rerun, legacy, cfg, lim, calls, running, stopClosed, closes, jobsClosed, wg,
                   resultsClosed, disp, work, procOk, procErr, ui, env>>

\* process: the body of the loop, which is that of ProcessResult without the
\* progress bar
LegacyProcess ==
    /\ cpc = "proc"
    /\ procOk' = procOk + (IF cres.kind = "ok" THEN 1 ELSE 0)
    /\ procErr' = procErr + (IF cres.kind = "err" THEN 1 ELSE 0)
    /\ ui' = [Processed(ui, cres) EXCEPT !.bar = ui.bar]
    /\ cres' = NoResult
    /\ cpc' = "recv"
    /\ UNCHANGED <<rerun, legacy, cfg, lim, calls, eng, disp, work, env>>

\* process: the range ends on the closed and empty r.results; r.wg.Done()
LegacyProcessEnd ==
    /\ cpc = "recv"
    /\ results = <<>>
    /\ resultsClosed
    /\ cpc' = "done"
    /\ rwg' = rwg - 1
    /\ UNCHANGED <<rerun, queued, cfg, lim, calls, eng, disp, work, cres, procOk, procErr, ui,
                   env>>

\* finalize: r.wg.Wait() returns; the figures are computed and printed
LegacyFinalize ==
    /\ mpc = "finalize"
    /\ rwg = 0
    /\ report' = [report EXCEPT !["main"] = Snapshot]
    /\ mpc' = "unblock"
    /\ UNCHANGED <<rerun, legacy, cfg, lim, calls, eng, disp, work, cons, stopsMade, spc,
                   panicked, exited>>

\* close(b.results), and Run returns
LegacyReturn ==
    /\ mpc = "unblock"
    /\ resultsClosed' = TRUE
    /\ mpc' = "returned"
    /\ UNCHANGED <<rerun, legacy, cfg, lim, calls, running, stopClosed, closes, jobsClosed, wg,
                   results, disp, work, cons, stopsMade, spc, report, panicked, exited>>

\* the steps of the goroutine that called Run, up to its wait in finalize
LegacyCaller ==
    \/ LegacyRun
    \/ LegacyLoop
    \/ LegacyThrottle
    \/ LegacyBreak
    \/ LegacySend
    \/ LegacyClose
    \/ LegacyReport

\* the steps of one worker
LegacyWorker(w) ==
    \/ LegacyWorkerRecv(w)
    \/ LegacyWorkerExec(w)
    \/ LegacyWorkerNotify(w)
    \/ LegacyWorkerExit(w)

\* the steps of the report's process goroutine inside its loop
LegacyAggregator ==
    \/ LegacyProcessRecv
    \/ LegacyProcess

\* every step a goroutine of the program may take, the end of the range of
\* process, the return of finalize and the return of Run included
LegacyProgram ==
    \/ LegacyCaller
    \/ \E w \in Workers : LegacyWorker(w)
    \/ LegacyAggregator
    \/ LegacyProcessEnd
    \/ LegacyFinalize
    \/ LegacyReturn

\* the steps that are taken: those of the program that ever become possible,
\* and the interrupt
LegacyNext ==
    \/ LegacyCaller
    \/ LegacyInterrupt
    \/ \E w \in Workers : LegacyWorker(w)
    \/ LegacyAggregator

LegacySpec == LegacyInit /\ [][LegacyNext]_vars

\* NewBoomer(req): nothing configured yet
ConfigInit ==
    /\ N = 0
    /\ C = NumCPU
    /\ Duration = 0
    /\ limited = FALSE
    /\ Q = 0
    /\ bucket = NoBucket
    /\ Timeout = 0
    /\ template = TestRequest
    /\ target = TestServer
    /\ fed = <<>>
    /\ calls = <<>>
    /\ Idle
    /\ stopsMade = 0
    /\ spc = [timer |-> "off", sig |-> "off", caller |-> "off"]

ConfigNext ==
    \/ \E n \in 0..MaxN : WithAmount(n)
    \/ \E d \in {0, 1} : WithDuration(d)
    \/ \E c \in 0..MaxC : WithConcurrency(c)
    \/ \E q \in 0..MaxQ : WithRateLimit(q)
    \/ \E t \in {0, 1} : WithTimeout(t)
    \/ Run

\* the With* calls a caller makes on a new Boomer, before Run and right after
\* it; the goroutines Run started write none of the fields these methods set
\* and are left where Run put them
ConfigSpec == ConfigInit /\ [][ConfigNext]_vars

\* pla.go: NewBoomer(req).WithAmount(n).WithConcurrency(c)
Configure ==
    \/ calls = <<>> /\ \E n \in 1..MaxN : WithAmount(n)
    \/ Len(calls) = 1 /\ \E c \in 0..MaxC : WithConcurrency(c)

\* boomerInstance.Run() once the Boomer is configured
Launch == Len(calls) = 2 /\ Run

\* a count-mode run nobody stops, on a Boomer configured that way
CoresNext ==
    \/ Configure
    \/ Launch
    \/ TriggerCheck
    \/ \E w \in Workers : TriggerSend(w)
    \/ \E w \in Workers : WorkerExec(w)
    \/ \E w \in Workers : WorkerNotify(w)
    \/ \E w \in Workers : WorkerExit(w)
    \/ StartConsumer
    \/ ConsumerRecv
    \/ ProcessResult
    \/ ConsumerEnd
    \/ Wait

\* the durations measured: 0 and as many more values as make two merges of
\* the histogram
Samples == 0..(MaxBins + 1)

\* the Outcomes a run against FlakyServer can publish
Inputs ==
    {ResultOf("ok", [TestResponse EXCEPT !.after = d], "") : d \in Samples}
      \cup {ResultOf("ok", ErrorPage, "")}
      \cup {ResultOf("err", BlankResp, e) : e \in FlakyServer.failures}

\* the number of Outcomes handed to ProcessResult
MaxFed == MaxBins + 2

\* a new BasicInterface, started on a Boomer in count or duration mode, and
\* the Outcomes it is going to process
AggInit ==
    /\ N = 0
    /\ C = NumCPU
    /\ Duration \in {0, 1}
    /\ limited = FALSE
    /\ Q = 0
    /\ bucket = NoBucket
    /\ Timeout = 0
    /\ template = TestRequest
    /\ target = FlakyServer
    /\ fed \in [1..MaxFed -> Inputs]
    /\ calls = <<>>
    /\ Idle
    /\ stopsMade = 0
    /\ spc = [timer |-> "off", sig |-> "off", caller |-> "off"]

\* ui.ProcessResult(res) on the next Outcome
Feed ==
    /\ procOk + procErr < Len(fed)
    /\ LET res == fed[procOk + procErr + 1]
       IN  /\ procOk' = procOk + (IF res.kind = "ok" THEN 1 ELSE 0)
           /\ procErr' = procErr + (IF res.kind = "err" THEN 1 ELSE 0)
           /\ ui' = Processed(ui, res)
    /\ UNCHANGED <<rerun, legacy, cfg, lim, calls, eng, disp, work, cpc, cres, env>>

\* ui.End() once every Outcome is processed
Finish ==
    /\ procOk + procErr = Len(fed)
    /\ ~report["main"].made
    /\ report' = [report EXCEPT !["main"] = Snapshot]
    /\ UNCHANGED <<rerun, legacy, cfg, lim, calls, eng, disp, work, cons, mpc, stopsMade, spc,
                   panicked, exited>>

AggNext ==
    \/ Feed
    \/ Finish

\* the statistics of the report as a function of the Outcomes processed
AggSpec == AggInit /\ [][AggNext]_vars

\* TestQPS: NewBoomer(req).WithAmount(n).WithConcurrency(c).WithRateLimit(q,
\* time.Second), the bucket being created at instant 0
RateInit ==
    /\ N = MaxRateJobs
    /\ Duration = 0
    /\ C = 2
    /\ Q \in 1..MaxQ
    /\ limited = TRUE
    /\ bucket = BucketCreate(Capacity(Q), 0)
    /\ Timeout = 0
    /\ template = TestRequest
    /\ target = TestServer
    /\ fed = <<>>
    /\ calls = <<>>
    /\ Idle
    /\ stopsMade = 0
    /\ spc = [timer |-> "off", sig |-> "off", caller |-> "off"]

RateNext ==
    \/ Run
    \/ Tick
    \/ TriggerCheck
    \/ \E w \in Workers : RateSend(w)
    \/ RateWake
    \/ \E w \in Workers : WorkerExec(w)
    \/ \E w \in Workers : WorkerNotify(w)
    \/ \E w \in Workers : WorkerExit(w)
    \/ StartConsumer
    \/ ConsumerRecv
    \/ ProcessResult
    \/ ConsumerEnd
    \/ Wait

\* a rate-limited count-mode run against the clock, nobody calling Stop
RateSpec == RateInit /\ [][RateNext]_vars

\* ------------------------------------------------------------- scheduling
\* The triggerLoop goroutine keeps running, and Go's select picks among its
\* ready cases at random, so a case that is ready again and again is taken.
DispatcherFair ==
    /\ WF_vars(TriggerCheck \/ TriggerWake)
    /\ SF_vars(TriggerStop)

\* only the dispatcher is sure to run: workers, consumer and caller may stall
DispatchSpec == Spec /\ DispatcherFair

\* a step of some goroutine that is under way; the timer going off and the
\* caller choosing to call Stop are not among them
Progress ==
    \/ TriggerCheck \/ TriggerStop \/ TriggerWake
    \/ \E w \in Workers : TriggerSend(w) \/ WorkerExec(w) \/ WorkerNotify(w) \/ WorkerExit(w)
    \/ ConsumerRecv \/ ProcessResult \/ ConsumerEnd
    \/ StartConsumer \/ Wait
    \/ \E s \in Stoppers : StopCheck(s) \/ StopClose(s)

\* the scheduler never leaves every runnable goroutine waiting, Results are
\* drained: weaker than weak fairness for each goroutine on its own
FairSpec == Spec /\ WF_vars(Progress) /\ SF_vars(TriggerStop)

\* every goroutine of the run gets to run, Results are drained
CoresSpec == ConfigInit /\ [][CoresNext]_vars /\ WF_vars(Progress)

\* a step of the dispatcher or of a worker
EngineStep ==
    \/ TriggerCheck \/ TriggerStop \/ TriggerWake
    \/ \E w \in Workers : TriggerSend(w) \/ WorkerExec(w) \/ WorkerNotify(w) \/ WorkerExit(w)

\* the dispatcher and the workers keep running; nobody is sure to read
\* Results, and the caller may stall
NoReaderSpec == Spec /\ WF_vars(EngineStep) /\ SF_vars(TriggerStop)

\* ----------------------------------------------------------------- claims
Published == pubOk + pubErr
WaitReturned == mpc = "sleep"
Busy(w) == wpc[w] \in {"exec", "notify"}
\* the stop channel was closed once, and no other Stop call is between its
\* test of b.running and its close(b.stop)
StoppedOnce == stopClosed /\ ~panicked /\ \A s \in Stoppers : spc[s] # "close"

\* C1: in count mode the dispatcher never hands over more than N jobs, and
\* when Wait returns from a run nobody stopped, exactly N jobs were handed
\* over and exactly N Outcomes were published.
C1ExactlyN ==
    (Duration = 0 /\ N > 0) =>
        /\ i <= N
        /\ (WaitReturned /\ closes = 0) => (i = N /\ Published = N)

C1Witness ==
    /\ Duration = 0 /\ N = MaxN /\ C = MaxC
    /\ WaitReturned /\ closes = 0 /\ i = N /\ Published = N

\* C2: every job a worker took is either still to be executed by that worker
\* or was executed once, every executed job is either about to be published
\* or was published once, and when Wait returns the successes plus the
\* errors published equal the jobs handed over.
C2OneOutcomePerJob ==
    /\ executed = i - Cardinality({w \in Workers : wpc[w] = "exec"})
    /\ Published = executed - Cardinality({w \in Workers : wpc[w] = "notify"})
    /\ WaitReturned => (executed = i /\ Published = i)

C2Witness ==
    /\ WaitReturned /\ dexit = "stop"
    /\ pubOk > 0 /\ pubErr > 0 /\ Published = i

\* C3: once the stop channel is closed no job is placed on the job queue.
C3NoJobAfterStop == [][stopClosed => i' = i]_vars

\* C4: a dispatcher waiting in its select after the stop channel was closed
\* (by a Stop call that no other Stop call races with) closes the job queue,
\* whether or not any worker ever becomes free.
C4ReleasedByStop ==
    (StoppedOnce /\ dpc = "select") ~> jobsClosed

C4Witness ==
    /\ dexit = "stop" /\ jobsClosed /\ ~LoopDone(i)
    /\ \A w \in 1..C : Busy(w)

\* C5: after a Stop call (that no other Stop call races with) closed the stop
\* channel, with every goroutine running and Results drained, the dispatcher
\* closes the job queue, every job handed over is published, all workers
\* exit and Wait returns.
C5StopDrains ==
    StoppedOnce ~>
        /\ WaitReturned
        /\ jobsClosed
        /\ \A w \in 1..C : wpc[w] = "done"
        /\ Published = i

\* a stopped count-mode run that ended with fewer than N Outcomes
C5Witness ==
    /\ WaitReturned /\ stopClosed /\ Duration = 0
    /\ i > 0 /\ i < N /\ Published = i

\* C6: the report the interrupt handler makes counts every job dispatched.
C6InterruptReportComplete ==
    report["sig"].made =>
        report["sig"].ok + report["sig"].err = report["sig"].disp

\* C7: the report main makes after an uncancelled run counts every published
\* Outcome, none being buffered or in ProcessResult at that time.
C7ReportAfterDrain ==
    (report["main"].made /\ ~report["main"].cancelled) =>
        /\ report["main"].pending = 0
        /\ report["main"].ok + report["main"].err = report["main"].pub

\* C8: without the duration timer every Stop call is one of the caller's
\* sequential calls: the stop channel is closed at most once, never by a
\* call after the first, nothing panics, and once a Stop call has returned
\* the engine is cancelled.
C8SequentialStopOnce ==
    Duration = 0 =>
        /\ closes <= 1
        /\ ~panicked
        /\ (stopsMade >= 1 /\ mpc # "instop") =>
               (closes = 1 /\ stopClosed /\ ~running)

C8Witness ==
    /\ Duration = 0 /\ stopsMade = MaxStops /\ mpc = "ready"
    /\ closes = 1 /\ stopClosed /\ ~running

\* C9: the stop channel is never closed twice.
C9NoDoubleClose == closes <= 1

\* C10: the Result Channel is closed only after the dispatcher and all
\* workers have exited, no worker ever sends on the closed channel (the only
\* panic there is comes from closing the stop channel twice), and when the
\* consumer sees the close it has received everything published.
C10CloseAfterWorkers ==
    /\ resultsClosed => (dpc = "done" /\ \A w \in 1..C : wpc[w] = "done")
    /\ panicked => closes > 1
    /\ cpc = "done" => (procOk = pubOk /\ procErr = pubErr)

C10Witness ==
    /\ cpc = "done" /\ resultsClosed
    /\ C = MaxC /\ Published >= 2 /\ procOk + procErr = Published

\* C11: once Run has returned to its caller, the dispatcher has finished and
\* every worker has exited.
C11RunBlocks ==
    mpc # "run" => (dpc = "done" /\ \A w \in 1..C : wpc[w] = "done")

InWindow(t) ==
    Cardinality({k \in 1..Len(sent) : sent[k] >= t /\ sent[k] < t + Period})

\* C13: with a rate limit of Q per period, at most Q + 1 jobs are handed over
\* within any window of one period.
C13SlidingWindow ==
    \A t \in 0..Horizon : InWindow(t) <= Q + 1

\* C14 as stated: every job handed to a worker had a token taken from the
\* bucket for it.
C14TokenBeforeJob == limited => i <= tokens

\* jobs handed over since the bucket was last refilled
SinceRefill ==
    Cardinality({k \in 1..Len(sent) : sent[k] >= bucket.reset - Period})

\* C14: the token for a job is requested once the job has been handed over:
\* each hand-over either takes a token or sends the dispatcher to sleep, the
\* successful requests never outnumber the jobs, between two refills at most
\* Q jobs are handed over (Q - 1 tokens and the job whose request failed),
\* and a sleeping dispatcher hands over nothing and wakes only when the
\* bucket's refill instant has come.
C14TokenAfterJob ==
    /\ [](limited => (tokens <= i /\ SinceRefill <= Q))
    /\ [][(limited /\ i' = i + 1) => (tokens' = tokens + 1 \/ dpc' = "sleep")]_vars
    /\ [][dpc = "sleep" => (i' = i /\ (dpc' # "sleep" => now >= bucket.reset))]_vars

\* the second refill period of a run limited to MaxQ: its Q jobs are out and
\* the dispatcher sleeps
C14Witness ==
    /\ Q = MaxQ /\ dpc = "sleep"
    /\ i = 2 * Q /\ tokens = i - 2
    /\ SinceRefill = Q

\* C15: with a rate limit of 1 per period, at most 1 job has been handed
\* over before one period has elapsed since Run was called.
C15OneInFirstPeriod ==
    (Q = 1 /\ runAt >= 0 /\ now < runAt + Period) => i <= 1

C17JobsAreCopies ==
    \A w \in Workers :
        /\ wjob[w] # RequestPtr
        /\ \A v \in Workers : (v # w /\ wjob[w] # NilPtr) => wjob[v] # wjob[w]

\* C17: every job is the template object itself, which workers only copy
\* from; the object a worker executes is its own request object, never the
\* template and never another worker's.
C17WorkersCopy ==
    \A w \in Workers :
        /\ wjob[w] \in {NilPtr, RequestPtr}
        /\ Busy(w) => wjob[w] = RequestPtr
        /\ wpc[w] = "notify" =>
              /\ wdo[w].obj = OwnReq(w)
              /\ wdo[w].obj # wjob[w]
              /\ \A v \in Workers : v # w => wdo[v].obj # wdo[w].obj

\* two workers hold the template as their job and have executed their copies
C17Witness ==
    \E w, v \in 1..C :
        /\ w # v
        /\ wjob[w] = RequestPtr /\ wjob[v] = RequestPtr
        /\ wdo[w].obj = OwnReq(w) /\ wdo[v].obj = OwnReq(v)

\* C18: a duration-mode run is not ended by any count: its dispatcher leaves
\* only through the stop case, after the stop channel was closed; and once
\* the timer's Stop call has returned (no other Stop call racing with it),
\* with every goroutine running and Results drained, the job queue is
\* closed, all workers exit and Wait returns.
C18DurationMode ==
    /\ []((Duration > 0 /\ dpc = "done") => (dexit = "stop" /\ stopClosed))
    /\ (Duration > 0 /\ spc["timer"] = "done" /\ StoppedOnce) ~>
           (WaitReturned /\ jobsClosed /\ \A w \in 1..C : wpc[w] = "done")

\* a duration-mode run only the timer stopped, after more jobs than N
C18Witness ==
    /\ Duration > 0 /\ spc["timer"] = "done" /\ stopsMade = 0 /\ closes = 1
    /\ WaitReturned /\ i = MaxJobs /\ i > N /\ Published = i

\* the call at position k of the log is the last WithAmount or WithDuration
LastSetter(k) ==
    /\ calls[k].op \in {"WithAmount", "WithDuration"}
    /\ \A j \in (k + 1)..Len(calls) : calls[j].op \notin {"WithAmount", "WithDuration"}

InProgress == dpc # "idle" /\ ~(dpc = "done" /\ \A w \in 1..C : wpc[w] = "done")

\* C20: while a run is in progress no step changes N, C, Duration, the rate
\* limiter or the timeout.
C20FrozenDuringRun ==
    [][InProgress =>
          /\ N' = N /\ C' = C /\ Duration' = Duration
          /\ limited' = limited /\ bucket' = bucket /\ Timeout' = Timeout]_vars


\* ---------------------------------------------------------------- C21
InFlight == {w \in Workers : wpc[w] = "notify"}

Succeeded(o) ==
    /\ o.kind = "ok"
    /\ \E a \in target.answers : o.code = a.code /\ o.size = a.size

Failed(o) == o.kind = "err" /\ o.code = 0 /\ o.size = 0

\* C21: every Outcome either has no error and the status code and content
\* length of the response to its own request, or has an error, status code 0
\* and content length 0; this holds of the Outcome a worker is about to
\* publish, of the Outcomes queued and of the one being processed, whatever
\* the worker's earlier requests returned
C21OutcomeShape ==
    /\ \A w \in InFlight :
          \/ /\ wres[w].kind = "ok"
             /\ wres[w].code = wdo[w].answer.code
             /\ wres[w].size = wdo[w].answer.size
          \/ Failed(wres[w])
    /\ \A k \in 1..Len(results) : Succeeded(results[k]) \/ Failed(results[k])
    /\ cres # NoResult => Succeeded(cres) \/ Failed(cres)

\* the only worker fails a request while the consumer processes the Outcome of
\* its previous request, which the server answered with an error page
C21Witness ==
    /\ C = 1
    /\ wpc[1] = "notify"
    /\ wres[1].kind = "err"
    /\ cres.kind = "ok" /\ cres.code = ErrorPage.code

Reporters == {"main", "sig"}

C23Cancelled ==
    /\ report["sig"].made /\ report["sig"].ok = 0 /\ report["sig"].err = 0
    /\ report["sig"].sections = {}

ConfiguredZero ==
    \E k \in 1..Len(calls) :
        /\ calls[k] = [op |-> "WithConcurrency", arg |-> 0]
        /\ \A j \in (k + 1)..Len(calls) : calls[j].op # "WithConcurrency"

\* C24: a Boomer configured with concurrency 0 has C equal to the number of
\* cores, which is at least 1; its Run starts at least one worker, and the
\* count-mode run hands over its N jobs, publishes N Outcomes and Wait
\* returns
C24ZeroMeansCores ==
    /\ [](ConfiguredZero => (C = NumCPU /\ C >= 1))
    /\ []((ConfiguredZero /\ running) => \E w \in Workers : wpc[w] # "off")
    /\ (ConfiguredZero /\ running) ~> (WaitReturned /\ i = N /\ Published = N)

\* a run configured with an amount and concurrency 0 has completed
C24Witness ==
    /\ ConfiguredZero
    /\ N = MaxN
    /\ WaitReturned /\ i = N /\ Published = N
    /\ \A w \in 1..NumCPU : wpc[w] = "done"

\* ---------------------------------------------------------------- C25
\* the Outcomes processed so far
Seen == SubSeq(fed, 1, procOk + procErr)

\* the Outcome ProcessResult is about to process
NextFed == fed[procOk + procErr + 1]

\* C25: whatever Outcomes were processed, the error counts plus Count() make
\* the number of Outcomes processed, the status-code counts make Count(), and
\* processing an error Outcome changes only the count of its message: the
\* histogram, fastest, slowest, avgTotal, the status-code counts and the byte
\* total stay as they were
C25AggregateCounts ==
    /\ [](/\ SumOf(ui.errorDist) + Count(ui.histo) = Len(Seen)
          /\ SumOf(ui.statusCodeDist) = Count(ui.histo))
    /\ [][(Len(Seen) < Len(fed) /\ NextFed.kind = "err") =>
             /\ ui'.errorDist = Incremented(ui.errorDist, NextFed.msg)
             /\ ui'.histo = ui.histo
             /\ ui'.fastest = ui.fastest /\ ui'.slowest = ui.slowest
             /\ ui'.avgTotal = ui.avgTotal
             /\ ui'.statusCodeDist = ui.statusCodeDist
             /\ ui'.sizeTotal = ui.sizeTotal]_vars

\* successes with two status codes and errors with two messages were
\* processed, an error last
C25Witness ==
    /\ Len(Seen) = MaxFed
    /\ Cardinality(DOMAIN ui.errorDist) = 2
    /\ Cardinality(DOMAIN ui.statusCodeDist) = 2
    /\ fed[MaxFed].kind = "err"

\* ---------------------------------------------------------------- C26
\* the durations of the successes processed so far
Durations == {Seen[k].dur : k \in {j \in 1..Len(Seen) : Seen[j].kind = "ok"}}

Least(S) == CHOOSE x \in S : \A y \in S : x <= y

Greatest(S) == CHOOSE x \in S : \A y \in S : x >= y

\* C26: once a success was processed, fastest is the least and slowest the
\* greatest of the durations of the successes processed, a duration of 0
\* included
C26FastestSlowest ==
    Durations # {} =>
        /\ ui.fastest = Least(Durations)
        /\ ui.slowest = Greatest(Durations)

\* ---------------------------------------------------------------- C27
\* the statistics after the Outcomes of s were processed in their order
RECURSIVE Aggregated(_)
Aggregated(s) ==
    IF s = <<>> THEN NewBasicInterface
    ELSE Processed(Aggregated(SubSeq(s, 1, Len(s) - 1)), s[Len(s)])

\* s with the Outcomes at k and k + 1 in the other order; every other order
\* of s comes from a number of such exchanges
Swapped(s, k) == [s EXCEPT ![k] = s[k + 1], ![k + 1] = s[k]]

\* the parts of the statistics the report shows
SameReport(a, b) ==
    /\ Bins(a.histo) = Bins(b.histo)
    /\ a.fastest = b.fastest /\ a.slowest = b.slowest
    /\ a.errorDist = b.errorDist
    /\ a.statusCodeDist = b.statusCodeDist
    /\ a.sizeTotal = b.sizeTotal

\* C27: the Outcomes processed, taken in any other order, give the same
\* histogram bins, the same fastest and slowest, and the same error,
\* status-code and byte totals
C27OrderIndependent ==
    \A k \in 1..(Len(Seen) - 1) : SameReport(Aggregated(Swapped(Seen, k)), ui)

\* ---------------------------------------------------------------- C28
\* the samples a histogram holds
RECURSIVE Held(_)
Held(bins) == IF bins = <<>> THEN 0 ELSE bins[1].count + Held(Tail(bins))

Times(d) == Cardinality({k \in 1..Len(Seen) : Seen[k].kind = "ok" /\ Seen[k].dur = d})

PositiveSamples == Durations # {} /\ \A d \in Durations : d > 0

\* q lies between the least and the greatest sample added
WithinRange(q) ==
    /\ Least(Durations) * q.den <= q.num
    /\ q.num <= Greatest(Durations) * q.den

\* the percentiles of printLatencies, with 0 and 100
Percentiles == {0, 10, 25, 50, 75, 90, 95, 99, 100}

Ahead == i - Published

\* C31: at every point of a run with C workers the jobs handed over minus
\* the Outcomes published are at most C.
C31BackPressure == Ahead <= C

\* every worker of a timed run at full concurrency holds a job, and the
\* dispatcher waits in its select with the next one
C31Witness ==
    /\ C = MaxC /\ Duration > 0
    /\ Ahead = C
    /\ dpc = "select" /\ ~stopClosed

\* ---------------------------------------------------------------- C32
\* the triggerLoop goroutines started so far
Dispatchers == (IF dpc = "idle" THEN 0 ELSE 1) + (IF rpc = "off" THEN 0 ELSE 1)

\* C32: whatever Run and Stop calls are made on one Boomer, at most one
\* dispatcher is started, the job queue is closed at most once, and no job
\* is sent on the closed job queue.
C32OneDispatcher ==
    /\ Dispatchers <= 1
    /\ jobCloses <= 1
    /\ lateSends = 0

\* ---------------------------------------------------------------- C33
\* the calls of ui.End made so far
Ends == {c \in DOMAIN report : report[c].made}

\* processResults holds a Result that ProcessResult has not finished with
Aggregating == cpc = "proc"

\* C33: ui.End is executed at most once, by the interrupt handler or by main
\* and never by both, and no call of it is made while ProcessResult is at
\* work on the statistics.
C33OneQuietEnd ==
    /\ [](Cardinality(Ends) <= 1)
    /\ [][report' # report => ~Aggregating]_vars

\* ---------------------------------------------------------------- C34
\* the blocking Run is under way, requests were asked for and every one of
\* the N has completed
AllCompleted == mpc # "run" /\ N > 0 /\ Published = N

\* C34: in the blocking-Run variant Run returns once all N requests have
\* completed: from then on, as long as Run has not returned, some goroutine
\* of the program can take a step.
C34BlockingRunReturns ==
    AllCompleted => (mpc = "returned" \/ ENABLED LegacyProgram)

\* process, finalize and Run never get past their waits
LegacyBlocked ==
    /\ ~ENABLED LegacyProcessEnd
    /\ ~ENABLED LegacyFinalize
    /\ ~ENABLED LegacyReturn
====
